---- MODULE Spec2Model ----
(***************************************************************************)
(* Model of audio_backend/services/browser_session_service.py:             *)
(* create_browser_session and its two strategies,                          *)
(* _create_gpt_realtime_session ("webrtc") and _create_voice_live_session  *)
(* ("voice-live").                                                         *)
(*                                                                         *)
(* Strings that the code concatenates, searches or rewrites (deployment,   *)
(* endpoint, URLs, exception messages) are sequences of tokens; the scheme *)
(* markers "https://", "http://" and "wss://" are single tokens, so that   *)
(* str.replace and the f-string are computed as the code computes them.    *)
(* Python objects whose type is not fixed by the code (values parsed from  *)
(* the upstream JSON, the optional ephemeral_key) are records [t, v] with  *)
(* t the Python type name.                                                 *)
(***************************************************************************)
EXTENDS Integers, Sequences, FiniteSets, TLC

VARIABLES config, pc, call, posts, response, result, prev

vars == <<config, pc, call, posts, response, result, prev>>

(***************************************************************************)
(* Python values                                                           *)
(***************************************************************************)
PyNone == [t |-> "NoneType", v |-> ""]
PyStr(s) == [t |-> "str", v |-> s]
PyInt(s) == [t |-> "int", v |-> s]
\* a key that the JSON object does not hold
Missing == [t |-> "missing", v |-> ""]

\* bool(x) for None, str and int
Truthy(x) ==
    CASE x.t = "NoneType" -> FALSE
      [] x.t = "str" -> x.v # ""
      [] x.t = "int" -> x.v # "0"
      [] OTHER -> FALSE

\* dict.get(key): the value, None when the key is absent
DictGet(x) == IF x.t = "missing" THEN PyNone ELSE x

(***************************************************************************)
(* Token strings                                                           *)
(***************************************************************************)
\* str.replace(old, new) for a one-token old: every occurrence is replaced
Replace(s, old, new) == [i \in 1..Len(s) |-> IF s[i] = old THEN new ELSE s[i]]

\* sub in s
Contains(s, sub) ==
    \E i \in 0..(Len(s) - Len(sub)) :
        \A j \in 1..Len(sub) : s[i + j] = sub[j]

\* s.startswith(tok)
StartsWith(s, tok) == Len(s) > 0 /\ s[1] = tok

(***************************************************************************)
(* Inputs                                                                  *)
(***************************************************************************)
ConnectionModes == {"webrtc", "voice-live", "websocket"}
Deployments == {<<>>, <<"gpt-rt-1">>, <<"https://", "m">>}
Voices == {"", "alloy"}

EmptyDict == [n \in {} |-> ""]
HeadersNone == [t |-> "NoneType", d |-> EmptyDict]
HeadersDict(d) == [t |-> "dict", d |-> d]
Headers ==
    { HeadersNone,
      HeadersDict(EmptyDict),
      HeadersDict([n \in {"Authorization"} |-> "Bearer X"]),
      HeadersDict([n \in {"Authorization"} |-> "Bearer Y"]) }

\* the values str(uuid.uuid4()) may give
UUID4 == {"0b0e7a5c-uuid4-a", "9c1d2f3e-uuid4-b"}

\* BrowserRealtimeConfig records get_browser_realtime_config may return
ConfiguredRealtime ==
      [realtime_session_url |-> <<"https://", "upstream.example.com", "/realtime/sessions">>,
       webrtc_url |-> <<"https://", "signal.example.com", "/realtime">>,
       default_deployment |-> <<"gpt-realtime">>,
       default_voice |-> "verse"]
BlankRealtime ==
      [realtime_session_url |-> <<"https://", "upstream.example.com", "/realtime/sessions">>,
       webrtc_url |-> <<>>,
       default_deployment |-> <<>>,
       default_voice |-> ""]

\* VoiceLiveConfig records get_voice_live_config may return
ConfiguredVoiceLive ==
      [endpoint |-> <<"https://", "vl.example.com">>,
       default_model |-> <<"vl-default">>,
       default_voice |-> "echo"]
PlainHttpVoiceLive ==
      [endpoint |-> <<"http://", "vl.example.com">>,
       default_model |-> <<>>,
       default_voice |-> ""]

\* the configurations a process may run under; a call reads one of the two
\* records only
Configs ==
    { [realtime |-> ConfiguredRealtime, voice_live |-> ConfiguredVoiceLive],
      [realtime |-> BlankRealtime, voice_live |-> PlainHttpVoiceLive] }

\* JSON values the upstream may put under "id" and "client_secret"."value"
IdValues == {Missing, PyNone, PyStr(""), PyStr("sess_123")}
SecretValues == {Missing, PyNone, PyStr(""), PyStr("ek_abc"), PyInt("1")}

\* "client_secret": absent, null, or an object
ClientSecrets ==
    { [t |-> "missing", value |-> Missing],
      [t |-> "NoneType", value |-> Missing] }
    \cup { [t |-> "dict", value |-> x] : x \in SecretValues }

\* response bodies: text that is no JSON, or a JSON object
NotJson == [json |-> "invalid", id |-> Missing,
            client_secret |-> [t |-> "missing", value |-> Missing]]
JsonObjects == [json : {"object"}, id : IdValues, client_secret : ClientSecrets]
WellFormed == [json |-> "object", id |-> PyStr("sess_123"),
               client_secret |-> [t |-> "dict", value |-> PyStr("ek_abc")]]

\* what awaiting client.post can end in
Upstream ==
    { [kind |-> "ConnectError", status |-> 0, data |-> NotJson],
      [kind |-> "ReadTimeout", status |-> 0, data |-> NotJson] }
    \cup [kind : {"response"}, status : {200}, data : JsonObjects \cup {NotJson}]
    \cup [kind : {"response"}, status : {302, 500}, data : {WellFormed, NotJson}]

\* timeout=15.0 of httpx.AsyncClient
Timeout == 15

(***************************************************************************)
(* Outcomes of a call                                                      *)
(***************************************************************************)
NoSession == [session_id |-> PyNone, ephemeral_key |-> PyNone,
              realtime_url |-> <<>>, deployment |-> <<>>, voice |-> ""]
NoExc == [type |-> "", msg |-> <<>>]
Exc(type, msg) == [type |-> type, msg |-> msg]

Return(s) == [kind |-> "return", session |-> s, exc |-> NoExc]
Raise(e) == [kind |-> "raise", session |-> NoSession, exc |-> e]
Pending == [kind |-> "pending", session |-> NoSession, exc |-> NoExc]
NoResult == [kind |-> "none", session |-> NoSession, exc |-> NoExc]

BrowserSession(session_id, ephemeral_key, realtime_url, deployment, voice) ==
    [session_id |-> session_id, ephemeral_key |-> ephemeral_key,
     realtime_url |-> realtime_url, deployment |-> deployment, voice |-> voice]

NoCall == [connection_mode |-> "", deployment |-> <<>>, voice |-> "",
           realtime_headers |-> HeadersNone]
NoResponse == [kind |-> "none", status |-> 0, data |-> NotJson]
NoPrev == [set |-> FALSE, call |-> NoCall, response |-> NoResponse, session |-> NoSession]

(***************************************************************************)
(* The code                                                                *)
(***************************************************************************)
\* a or b on token strings and on strings
OrText(a, b) == IF a # <<>> THEN a ELSE b
OrStr(a, b) == IF a # "" THEN a ELSE b

AuthHeadersMessage == <<"Auth headers must be provided for realtime session requests">>
MalformedMessage == <<"Malformed session response from Azure Realtime API">>
UnsupportedModeMessage(connection_mode) == <<"Unsupported connection mode: ", connection_mode>>

\* a header check that only rejects None
_ensure_headers_only_none(headers) ==
    IF headers.t = "NoneType"
    THEN [raised |-> TRUE, exc |-> Exc("RuntimeError", AuthHeadersMessage)]
    ELSE [raised |-> FALSE, exc |-> NoExc]

\* `not headers` holds of None and of the empty dict
_ensure_headers(headers) ==
    IF headers.t = "NoneType" \/ DOMAIN headers.d = {}
    THEN [raised |-> TRUE, exc |-> Exc("RuntimeError", AuthHeadersMessage)]
    ELSE [raised |-> FALSE, exc |-> NoExc]

\* a dispatch whose last branch takes every other mode to Voice Live
Dispatch_else_voice_live(connection_mode) ==
    IF connection_mode = "webrtc" THEN "_create_gpt_realtime_session"
    ELSE "_create_voice_live_session"

\* the branch create_browser_session takes
Dispatch(connection_mode) ==
    IF connection_mode = "webrtc" THEN "_create_gpt_realtime_session"
    ELSE IF connection_mode = "voice-live" THEN "_create_voice_live_session"
    ELSE "raise"

\* the request client.post sends
PostRequest(deployment, voice, headers) ==
    [url |-> config.realtime.realtime_session_url,
     headers |-> headers,
     json |-> [model |-> deployment, voice |-> voice],
     timeout |-> Timeout]

\* a status check that raises on 4xx and 5xx only
raise_for_status_errors_only(status) == status >= 400

\* Response.raise_for_status raises unless the status is 2xx
raise_for_status(status) == ~(status >= 200 /\ status <= 299)

\* a Session whose secret is the caller's Authorization header
gpt_realtime_BrowserSession_header_key(deployment, voice, headers, session_id, ephemeral_key) ==
    BrowserSession(session_id,
                   PyStr(headers.d["Authorization"]),
                   config.realtime.webrtc_url,
                   OrText(deployment, config.realtime.default_deployment),
                   OrStr(voice, config.realtime.default_voice))

\* a Session that points the browser at the session-creation URL
gpt_realtime_BrowserSession_upstream_url(deployment, voice, headers, session_id, ephemeral_key) ==
    BrowserSession(session_id,
                   ephemeral_key,
                   config.realtime.realtime_session_url,
                   OrText(deployment, config.realtime.default_deployment),
                   OrStr(voice, config.realtime.default_voice))

\* the BrowserSession _create_gpt_realtime_session returns, from the locals
\* in scope at its return statement
gpt_realtime_BrowserSession(deployment, voice, headers, session_id, ephemeral_key) ==
    BrowserSession(session_id,
                   ephemeral_key,
                   config.realtime.webrtc_url,
                   OrText(deployment, config.realtime.default_deployment),
                   OrStr(voice, config.realtime.default_voice))

\* _create_gpt_realtime_session from the point where awaiting client.post
\* ends in r
_create_gpt_realtime_session(deployment, voice, headers, r) ==
    IF r.kind # "response" THEN Raise(Exc(r.kind, <<>>))
    ELSE IF raise_for_status(r.status) THEN Raise(Exc("HTTPStatusError", <<>>))
    ELSE IF r.data.json = "invalid" THEN Raise(Exc("JSONDecodeError", <<>>))
    ELSE
      LET data == r.data
          \* data.get("client_secret", {})
          client_secret == IF data.client_secret.t = "missing"
                           THEN [t |-> "dict", value |-> Missing]
                           ELSE data.client_secret
      IN  IF client_secret.t # "dict"
          THEN Raise(Exc("AttributeError",
                         <<"'", client_secret.t, "' object has no attribute 'get'">>))
          ELSE
            LET ephemeral_key == DictGet(client_secret.value)
                session_id == DictGet(data.id)
            IN  IF ~Truthy(ephemeral_key) \/ ~Truthy(session_id)
                THEN Raise(Exc("RuntimeError", MalformedMessage))
                ELSE Return(gpt_realtime_BrowserSession(
                              deployment, voice, headers, session_id, ephemeral_key))

PinnedApiVersion == <<"2025-05-01-preview">>

\* a Voice Live session that echoes the caller's deployment unresolved
_create_voice_live_session_raw_deployment(deployment, voice, uuid) ==
    LET model == OrText(deployment, config.voice_live.default_model)
        url == config.voice_live.endpoint
               \o <<"/voice-live/realtime?api-version=">> \o PinnedApiVersion
               \o <<"&model=">> \o model
    IN  BrowserSession(PyStr(uuid),
                       PyNone,
                       Replace(url, "https://", "wss://"),
                       deployment,
                       OrStr(voice, config.voice_live.default_voice))

\* _create_voice_live_session, uuid being the value of str(uuid.uuid4())
_create_voice_live_session(deployment, voice, uuid) ==
    LET model == OrText(deployment, config.voice_live.default_model)
        url == config.voice_live.endpoint
               \o <<"/voice-live/realtime?api-version=">> \o PinnedApiVersion
               \o <<"&model=">> \o model
    IN  BrowserSession(PyStr(uuid),
                       PyNone,
                       Replace(url, "https://", "wss://"),
                       OrText(model, config.voice_live.default_model),
                       OrStr(voice, config.voice_live.default_voice))

(***************************************************************************)
(* The state machine                                                       *)
(***************************************************************************)
Init ==
    /\ config \in Configs
    /\ pc = "idle"
    /\ call = NoCall
    /\ posts = <<>>
    /\ response = NoResponse
    /\ result = NoResult
    /\ prev = NoPrev

\* history: the last "webrtc" call that returned a Session
Remember ==
    IF result.kind = "return" /\ call.connection_mode = "webrtc"
    THEN [set |-> TRUE, call |-> call, response |-> response, session |-> result.session]
    ELSE prev

\* create_browser_session, up to its return, its raise, or the await of
\* client.post
create_browser_session(connection_mode, deployment, voice, realtime_headers) ==
    /\ pc = "idle"
    /\ call' = [connection_mode |-> connection_mode, deployment |-> deployment,
                voice |-> voice, realtime_headers |-> realtime_headers]
    /\ prev' = Remember
    /\ response' = NoResponse
    /\ IF Dispatch(connection_mode) = "_create_gpt_realtime_session"
       THEN IF _ensure_headers(realtime_headers).raised
            THEN /\ result' = Raise(_ensure_headers(realtime_headers).exc)
                 /\ posts' = <<>>
                 /\ pc' = "idle"
            ELSE /\ result' = Pending
                 /\ posts' = <<PostRequest(deployment, voice, realtime_headers)>>
                 /\ pc' = "awaiting"
       ELSE IF Dispatch(connection_mode) = "_create_voice_live_session"
       THEN /\ \E uuid \in UUID4 :
                 result' = Return(_create_voice_live_session(deployment, voice, uuid))
            /\ posts' = <<>>
            /\ pc' = "idle"
       ELSE /\ result' = Raise(Exc("ValueError", UnsupportedModeMessage(connection_mode)))
            /\ posts' = <<>>
            /\ pc' = "idle"
    /\ UNCHANGED config

\* the awaited client.post ends in r and _create_gpt_realtime_session runs
\* to its return or raise
post_completes(r) ==
    /\ pc = "awaiting"
    /\ response' = r
    /\ result' = _create_gpt_realtime_session(
                     call.deployment, call.voice, call.realtime_headers, r)
    /\ pc' = "idle"
    /\ UNCHANGED <<config, call, posts, prev>>

Next ==
    \/ \E connection_mode \in ConnectionModes, deployment \in Deployments,
          voice \in Voices, realtime_headers \in Headers :
          create_browser_session(connection_mode, deployment, voice, realtime_headers)
    \/ \E r \in Upstream : post_completes(r)

Spec == Init /\ [][Next]_vars

(***************************************************************************)
(* Vocabulary of the claims                                                *)
(***************************************************************************)
\* the specification's error names, as the exceptions the code raises
AuthHeadersMissing == Exc("RuntimeError", AuthHeadersMessage)
MalformedUpstreamResponse == Exc("RuntimeError", MalformedMessage)
UnsupportedModeType == "ValueError"
UpstreamRequestFailedTypes == {"HTTPStatusError", "ConnectError", "ReadTimeout"}

\* a call has been made and has ended
Completed == pc = "idle" /\ result.kind \in {"return", "raise"}
Returned == pc = "idle" /\ result.kind = "return"
Started == result.kind # "none"

EmptyHeaders == call.realtime_headers.t = "NoneType" \/ DOMAIN call.realtime_headers.d = {}
NonEmptyString(x) == x.t = "str" /\ x.v # ""
Is2xx(r) == r.kind = "response" /\ r.status \in 200..299

\* the deployment and voice a Session should carry, from the mode's defaults
ModeDefaultDeployment ==
    IF call.connection_mode = "webrtc" THEN config.realtime.default_deployment
    ELSE config.voice_live.default_model
ModeDefaultVoice ==
    IF call.connection_mode = "webrtc" THEN config.realtime.default_voice
    ELSE config.voice_live.default_voice
EffectiveDeployment ==
    IF call.deployment # <<>> THEN call.deployment ELSE ModeDefaultDeployment
EffectiveVoice ==
    IF call.voice # "" THEN call.voice ELSE ModeDefaultVoice

\* the Voice Live URL before the scheme rewrite, and a rewrite of the scheme
\* prefix only
ComposedVoiceLiveUrl ==
    config.voice_live.endpoint
    \o <<"/voice-live/realtime?api-version=", "2025-05-01-preview", "&model=">>
    \o EffectiveDeployment
SchemePrefixRewrite(url) ==
    IF StartsWith(url, "https://") THEN <<"wss://">> \o Tail(url) ELSE url

(***************************************************************************)
(* Claims                                                                  *)
(***************************************************************************)
\* C1: a returned Session has ephemeral_key present, a non-empty string, if
\* and only if the call used mode "webrtc"; a "voice-live" Session has it
\* None.
C1_EphemeralKeyIffWebrtc ==
    Returned =>
        /\ (call.connection_mode = "webrtc") <=> (result.session.ephemeral_key # PyNone)
        /\ call.connection_mode = "webrtc" => NonEmptyString(result.session.ephemeral_key)
        /\ call.connection_mode = "voice-live" => result.session.ephemeral_key = PyNone

\* C2: no returned Session has an empty session_id or an empty realtime_url,
\* whatever the inputs, the configuration and the upstream response.
C2_NoEmptyIdOrUrl ==
    Returned =>
        /\ Truthy(result.session.session_id)
        /\ result.session.realtime_url # <<>>

\* C3: two "webrtc" calls that differ only in their (non-empty) headers and
\* receive the same upstream response return identical Sessions; every
\* field of a "webrtc" Session is the upstream id or secret, a configuration
\* value or the deployment or voice argument.
C3_HeadersDoNotReachSession ==
    /\ ( /\ Returned
         /\ call.connection_mode = "webrtc"
         /\ prev.set
         /\ prev.call.deployment = call.deployment
         /\ prev.call.voice = call.voice
         /\ prev.response = response )
       => result.session = prev.session
    /\ (Returned /\ call.connection_mode = "webrtc")
       => /\ result.session.session_id = response.data.id
          /\ result.session.ephemeral_key = response.data.client_secret.value
          /\ result.session.realtime_url = config.realtime.webrtc_url
          /\ result.session.deployment
               \in {call.deployment, config.realtime.default_deployment}
          /\ result.session.voice \in {call.voice, config.realtime.default_voice}

C3_Witness ==
    /\ Returned
    /\ call.connection_mode = "webrtc"
    /\ prev.set
    /\ prev.call.deployment = call.deployment
    /\ prev.call.voice = call.voice
    /\ prev.response = response
    /\ prev.call.realtime_headers # call.realtime_headers

\* C4: a "webrtc" call with None or empty headers fails with
\* AuthHeadersMissing, issues no POST and returns no Session.
C4_EmptyHeadersFailFast ==
    (Started /\ call.connection_mode = "webrtc" /\ EmptyHeaders)
    => /\ pc = "idle"
       /\ result = Raise(AuthHeadersMissing)
       /\ posts = <<>>

C4_Witness ==
    /\ Completed
    /\ call.connection_mode = "webrtc"
    /\ call.realtime_headers = HeadersDict(EmptyDict)
    /\ result.kind = "raise"

\* C5: a 2xx response whose JSON object lacks id or client_secret.value (key
\* absent, client_secret absent or null, or an empty string) makes a
\* "webrtc" call fail with MalformedUpstreamResponse.
C5_MissingFieldsRaiseMalformed ==
    ( /\ Completed
      /\ call.connection_mode = "webrtc"
      /\ Is2xx(response)
      /\ response.data.json = "object"
      /\ \/ response.data.id \in {Missing, PyNone, PyStr("")}
         \/ response.data.client_secret.t \in {"missing", "NoneType"}
         \/ response.data.client_secret.value \in {Missing, PyNone, PyStr("")} )
    => result = Raise(MalformedUpstreamResponse)

\* C6: after a 2xx response carrying id and client_secret.value, a "webrtc"
\* call returns a Session whose ephemeral_key and session_id are the
\* upstream values and whose realtime_url is config.webrtc_url.
C6_SessionFromUpstreamAndConfig ==
    ( /\ Completed
      /\ call.connection_mode = "webrtc"
      /\ Is2xx(response)
      /\ response.data.json = "object"
      /\ NonEmptyString(response.data.id)
      /\ response.data.client_secret.t = "dict"
      /\ NonEmptyString(response.data.client_secret.value) )
    => /\ result.kind = "return"
       /\ result.session.ephemeral_key = response.data.client_secret.value
       /\ result.session.session_id = response.data.id
       /\ result.session.realtime_url = config.realtime.webrtc_url

C6_Witness ==
    /\ Returned
    /\ call.connection_mode = "webrtc"
    /\ response.data = WellFormed
    /\ config.realtime.webrtc_url # config.realtime.realtime_session_url
    /\ result.session.realtime_url # <<>>

\* C7: a "voice-live" call issues no POST and returns a realtime_url that
\* starts with "wss://", contains the effective model and the pinned API
\* version, and is the composed URL with its scheme prefix alone rewritten.
C7_VoiceLiveUrl ==
    (Returned /\ call.connection_mode = "voice-live")
    => /\ posts = <<>>
       /\ StartsWith(result.session.realtime_url, "wss://")
       /\ Contains(result.session.realtime_url, EffectiveDeployment)
       /\ Contains(result.session.realtime_url, <<"2025-05-01-preview">>)
       /\ result.session.realtime_url = SchemePrefixRewrite(ComposedVoiceLiveUrl)

\* C8: a call with a connection mode other than "webrtc" and "voice-live"
\* fails with UnsupportedMode, the error carries the mode, no POST is issued
\* and no Session is returned, whatever the headers.
C8_UnsupportedModeRaises ==
    (Started /\ call.connection_mode \notin {"webrtc", "voice-live"})
    => /\ pc = "idle"
       /\ result.kind = "raise"
       /\ result.session = NoSession
       /\ result.exc.type = UnsupportedModeType
       /\ result.exc.msg[Len(result.exc.msg)] = call.connection_mode
       /\ posts = <<>>

C8_Witness ==
    /\ Completed
    /\ call.connection_mode = "websocket"
    /\ call.realtime_headers = HeadersNone
    /\ result.kind = "raise"

\* C9: a returned Session carries the caller's deployment and voice where
\* those are non-empty, and the mode's configured defaults where they are
\* empty.
C9_FallbackToDefaults ==
    Returned =>
        /\ result.session.deployment = EffectiveDeployment
        /\ result.session.voice = EffectiveVoice

C9_Witness ==
    /\ Returned
    /\ call.connection_mode = "voice-live"
    /\ call.deployment = <<>>
    /\ call.voice = ""
    /\ result.session.deployment = <<"vl-default">>
    /\ result.session.voice = "echo"

\* C10: a "webrtc" call with non-empty headers issues one POST to the
\* session-creation URL; a transport error, a timeout or a non-2xx status
\* ends it with UpstreamRequestFailed and no Session; a Session is returned
\* only after a 2xx response; completing the call issues no further POST.
C10_OnePostNoRetry ==
    /\ [](  (Started /\ call.connection_mode = "webrtc" /\ ~EmptyHeaders)
            => /\ Len(posts) = 1
               /\ posts[1].url = config.realtime.realtime_session_url
               /\ (pc = "idle" /\ ~Is2xx(response))
                  => /\ result.kind = "raise"
                     /\ result.session = NoSession
                     /\ result.exc.type \in UpstreamRequestFailedTypes
               /\ result.kind = "return" => Is2xx(response) )
    /\ [][pc = "awaiting" => posts' = posts]_vars

C10_Witness ==
    /\ Completed
    /\ call.connection_mode = "webrtc"
    /\ Len(posts) = 1
    /\ response.kind = "response"
    /\ response.status = 302
    /\ response.data = WellFormed
    /\ result.kind = "raise"

====
